---- MODULE Spec2Model ----
(***************************************************************************)
(* Task tracker: the tasks table, the storage layer (DatabaseStorage) and  *)
(* the four REST routes registered by registerRoutes, the request logging  *)
(* middleware, the client's cached task list and its toast hook.           *)
(***************************************************************************)
EXTENDS Integers, Sequences, FiniteSets, TLC

(* Bounds of the exploration. *)
MaxId == 2      \* at most this many rows are ever inserted
MaxTime == 2    \* the clock runs over 1..MaxTime
MaxInFlight == 2  \* at most this many PATCH requests wait on their statement
MaxRaced == 1   \* at most this many rows are inserted while requests race
MaxSortTime == 3  \* creation times of the lists that are rendered: 1..MaxSortTime
ClockPerMs == 2 \* clock readings per millisecond
MaxToasts == 3  \* at most this many toasts are ever created

(* Postgres serial is a 32-bit integer column. *)
MaxInt4 == 2147483647

VARIABLES
  tasks,    \* the rows of the tasks table
  seq,      \* last value handed out by the id sequence of the serial column
  now,      \* the clock read by defaultNow() and new Date()
  issued,   \* ids returned by createTask, in call order
  last,     \* the last request handled and its response
  dbUp,     \* whether the database can be reached
  pending,  \* PATCH requests waiting on their UPDATE statement
  cache,    \* the client's data of the query ["/api/tasks"]
  fetch,    \* the fetch of that query in flight
  mutation, \* the client's mutation in flight
  queryError,  \* whether the query is in its error state
  servedAfter, \* the list the server sent after the last successful mutation
  mutated,  \* whether a mutation of the client has succeeded
  shown,    \* the lists Home rendered last
  toasted,  \* the argument of the last toast() call of the mutation hooks
  toasts,   \* memoryState.toasts of the toast hook, newest first
  toastTimeouts, \* the ids holding a removal timer, in the order they were set
  idCount,  \* count, the counter behind genId
  dispatched,    \* the last action given to dispatch
  logged    \* the line the logging middleware passed to log() last

client == <<cache, fetch, mutation, queryError, servedAfter, mutated, shown, toasted>>

toaster == <<toasts, toastTimeouts, idCount, dispatched>>

vars == <<tasks, seq, now, issued, last, dbUp, pending, client, toaster, logged>>

----------------------------------------------------------------------------
(* JSON values of a request body, and the absent property (undefined).     *)

JUndefined == [type |-> "undefined", b |-> FALSE, n |-> 0, s |-> ""]
JNull == [type |-> "null", b |-> FALSE, n |-> 0, s |-> ""]
JBool(v) == [type |-> "boolean", b |-> v, n |-> 0, s |-> ""]
JNum(v) == [type |-> "number", b |-> FALSE, n |-> v, s |-> ""]
JStr(v) == [type |-> "string", b |-> FALSE, n |-> 0, s |-> v]

(* JavaScript ToBoolean, as applied by `req.body.completed ? ... : ...`. *)
Truthy(j) ==
  CASE j.type = "boolean" -> j.b
    [] j.type = "number" -> j.n # 0
    [] j.type = "string" -> j.s # ""
    [] OTHER -> FALSE

(* The elements of a list. *)
Range(f) == {f[i] : i \in DOMAIN f}

(* A nullable column value: <<>> is NULL, <<v>> holds v. *)
Null == <<>>
Some(v) == <<v>>

(* The value a boolean column receives for a query parameter: the driver   *)
(* sends booleans, numbers and strings as text and Postgres reads the text *)
(* as a boolean; null stays NULL; unreadable text is an error.             *)
PgBooleanTrue == {"true", "t", "yes", "y", "on", "1"}
PgBooleanFalse == {"false", "f", "no", "n", "off", "0"}
PgBoolean(j) ==
  CASE j.type = "boolean" -> [ok |-> TRUE, val |-> Some(j.b)]
    [] j.type = "null" -> [ok |-> TRUE, val |-> Null]
    [] j.type = "number" /\ j.n \in {0, 1} -> [ok |-> TRUE, val |-> Some(j.n = 1)]
    [] j.type = "string" /\ j.s \in PgBooleanTrue -> [ok |-> TRUE, val |-> Some(TRUE)]
    [] j.type = "string" /\ j.s \in PgBooleanFalse -> [ok |-> TRUE, val |-> Some(FALSE)]
    [] OTHER -> [ok |-> FALSE, val |-> Null]

----------------------------------------------------------------------------
(* Path segments are sequences of characters; parseInt without a radix.    *)

(* A JavaScript number as parseInt returns it: NaN, or an integer val.  An  *)
(* integer of magnitude above MaxInt4 is kept as big, without its value.   *)
NaN == [nan |-> TRUE, val |-> 0, big |-> FALSE]
Num(v) == [nan |-> FALSE, val |-> v, big |-> FALSE]
Big == [nan |-> FALSE, val |-> 0, big |-> TRUE]
isNaN(x) == x.nan

DecDigits == <<"0", "1", "2", "3", "4", "5", "6", "7", "8", "9">>
HexDigits == DecDigits \o <<"a", "b", "c", "d", "e", "f">>

DigitVal(c, digits) ==
  LET at == {i \in 1..Len(digits) : digits[i] = c}
  IN IF at = {} THEN -1 ELSE (CHOOSE i \in at : TRUE) - 1

RECURSIVE StripLeadingSpace(_)
StripLeadingSpace(s) ==
  IF s # <<>> /\ Head(s) = " " THEN StripLeadingSpace(Tail(s)) ELSE s

(* Value of the longest prefix of s made of digits of the radix, with the  *)
(* number of digits read; acc is the value read so far, big once it has    *)
(* passed MaxInt4.                                                         *)
RECURSIVE ReadDigits(_, _, _, _, _)
ReadDigits(s, digits, acc, count, big) ==
  IF s # <<>> /\ DigitVal(Head(s), digits) >= 0
  THEN LET d == DigitVal(Head(s), digits)
           over == big \/ acc > (MaxInt4 - d) \div Len(digits)
       IN ReadDigits(Tail(s), digits, IF over THEN 0 ELSE acc * Len(digits) + d,
                     count + 1, over)
  ELSE [val |-> acc, count |-> count, big |-> big]

parseInt(str) ==
  LET s == StripLeadingSpace(str)
      signed == s # <<>> /\ Head(s) \in {"+", "-"}
      sign == IF s # <<>> /\ Head(s) = "-" THEN -1 ELSE 1
      body == IF signed THEN Tail(s) ELSE s
      hex == Len(body) >= 2 /\ body[1] = "0" /\ body[2] \in {"x", "X"}
      rest == IF hex THEN SubSeq(body, 3, Len(body)) ELSE body
      read == ReadDigits(rest, IF hex THEN HexDigits ELSE DecDigits, 0, 0, FALSE)
  IN IF read.count = 0 THEN NaN
     ELSE IF read.big THEN Big
     ELSE Num(sign * read.val)

----------------------------------------------------------------------------
(* Validation schemas generated from the table definition.                 *)

T100 == "aaaaaaaaaaaaaaaaaaaaaaaaaaaaaaaaaaaaaaaaaaaaaaaaaaaaaaaaaaaaaaaaaaaaaaaaaaaaaaaaaaaaaaaaaaaaaaaaaaaa"
T101 == "aaaaaaaaaaaaaaaaaaaaaaaaaaaaaaaaaaaaaaaaaaaaaaaaaaaaaaaaaaaaaaaaaaaaaaaaaaaaaaaaaaaaaaaaaaaaaaaaaaaaa"

(* Faulty variant: the keys the schema does not name are passed through. *)
insertTaskSchemaPassthrough(body) ==
  IF body.title.type = "string"
  THEN [ok |-> TRUE,
        data |-> [k \in DOMAIN body |-> IF k = "title" THEN body.title.s ELSE body[k]]]
  ELSE [ok |-> FALSE, data |-> [title |-> ""]]

(* insertTaskSchema: title is a text NOT NULL column, so a required string; *)
(* other keys of the body are dropped.                                     *)
insertTaskSchema(body) ==
  IF body.title.type = "string"
  THEN [ok |-> TRUE, data |-> [title |-> body.title.s]]
  ELSE [ok |-> FALSE, data |-> [title |-> ""]]

----------------------------------------------------------------------------
(* The storage layer.  Every operation is one SQL statement; a result has  *)
(* threw (the statement failed), table (the rows afterwards) and ret.      *)

(* An integer parameter compared with the serial column must fit 32 bits   *)
(* (-MaxInt4 - 1, the one in-range value of larger magnitude, is not among *)
(* the requests).                                                          *)
InInt4(x) == ~x.big

(* Messages of the errors the store throws. *)
ErrConnection == "connection terminated unexpectedly"
ErrNoValues == "No values to set"
ErrOutOfRange == "value is out of range for type integer"
ErrBoolean == "invalid input syntax for type boolean"
ErrNotNull == "null value in column completed violates not-null constraint"

StoreErrors == {ErrConnection, ErrNoValues, ErrOutOfRange, ErrBoolean, ErrNotNull}

(* A statement that completed and one that threw; error is "" when none. *)
Done(table, ret) == [threw |-> FALSE, table |-> table, ret |-> ret, error |-> ""]
Thrown(table, ret, error) == [threw |-> TRUE, table |-> table, ret |-> ret, error |-> error]

RowsById(table, id) == {r \in table : r.id = id.val}

(* ORDER BY completed ASC, created_at DESC: false sorts before true. *)
OrderedBefore(a, b) ==
  \/ ~a.completed /\ b.completed
  \/ a.completed = b.completed /\ a.createdAt >= b.createdAt

(* Faulty variant: ORDER BY created_at DESC alone. *)
getAllTasksNewestFirst(table) ==
  {s \in [1..Cardinality(table) -> table] :
     /\ \A i, j \in DOMAIN s : i # j => s[i] # s[j]
     /\ \A i, j \in DOMAIN s : i < j => s[i].createdAt >= s[j].createdAt}

(* Every sequence the query may return: rows that compare equal under the  *)
(* ORDER BY come in any order.                                             *)
getAllTasks(table) ==
  {s \in [1..Cardinality(table) -> table] :
     /\ \A i, j \in DOMAIN s : i # j => s[i] # s[j]
     /\ \A i, j \in DOMAIN s : i < j => OrderedBefore(s[i], s[j])}

(* Faulty variant: the completion time is stamped at creation. *)
createTaskStamped(table, task, nextval, time) ==
  LET newTask == [id |-> nextval, title |-> task.title, completed |-> FALSE,
                  createdAt |-> time, completedAt |-> Some(time)]
  IN Done(table \cup {newTask}, Some(newTask))

(* Faulty variant: the id is the number of stored rows plus one. *)
createTaskCountId(table, task, nextval, time) ==
  LET newTask == [id |-> Cardinality(table) + 1, title |-> task.title,
                  completed |-> FALSE, createdAt |-> time, completedAt |-> Null]
  IN Done(table \cup {newTask}, Some(newTask))

(* INSERT ... VALUES (task): a column the values do not name takes its     *)
(* default, the next value of the sequence for id, false for completed,    *)
(* the time of the statement for created_at and NULL for completed_at.     *)
InsertedRow(task, nextval, time) ==
  LET default == [id |-> nextval, title |-> "", completed |-> FALSE,
                  createdAt |-> time, completedAt |-> Null]
  IN [c \in DOMAIN default |-> IF c \in DOMAIN task THEN task[c] ELSE default[c]]

createTask(table, task, nextval, time) ==
  LET newTask == InsertedRow(task, nextval, time)
  IN Done(table \cup {newTask}, Some(newTask))

(* Faulty variant: the creation time is overwritten with the time of the   *)
(* update.                                                                 *)
ApplyUpdatesTouchCreatedAt(row, updates) ==
  LET r1 == IF "completed" \in DOMAIN updates
            THEN [row EXCEPT !.completed = PgBoolean(updates.completed).val[1]]
            ELSE row
  IN IF "completedAt" \in DOMAIN updates
     THEN [r1 EXCEPT !.completedAt = updates.completedAt, !.createdAt = now]
     ELSE r1

(* Faulty variant: a completion time already set is kept. *)
ApplyUpdatesKeepFirst(row, updates) ==
  LET r1 == IF "completed" \in DOMAIN updates
            THEN [row EXCEPT !.completed = PgBoolean(updates.completed).val[1]]
            ELSE row
  IN IF "completedAt" \in DOMAIN updates
        /\ ~(row.completedAt # Null /\ updates.completedAt # Null)
     THEN [r1 EXCEPT !.completedAt = updates.completedAt]
     ELSE r1

(* updates is a function from the keys that are set to their values. *)
(* Faulty variant: completed in the update data is taken as an instruction *)
(* to flip the stored flag.                                                *)
ApplyUpdatesFlip(row, updates) ==
  LET r1 == IF "completed" \in DOMAIN updates
            THEN [row EXCEPT !.completed = ~row.completed]
            ELSE row
  IN IF "completedAt" \in DOMAIN updates
     THEN [r1 EXCEPT !.completedAt = updates.completedAt]
     ELSE r1

ApplyUpdates(row, updates) ==
  LET r1 == IF "completed" \in DOMAIN updates
            THEN [row EXCEPT !.completed = PgBoolean(updates.completed).val[1]]
            ELSE row
  IN IF "completedAt" \in DOMAIN updates
     THEN [r1 EXCEPT !.completedAt = updates.completedAt]
     ELSE r1

(* Faulty variant: the update has no WHERE clause. *)
updateTaskNoWhere(table, id, updates) ==
  LET updated == {ApplyUpdates(r, updates) : r \in table}
  IN IF DOMAIN updates = {} \/ ~InInt4(id)
        \/ ~PgBoolean(updates.completed).ok \/ PgBoolean(updates.completed).val = Null
     THEN Thrown(table, Null, ErrNoValues)
     ELSE IF table = {} THEN Done(table, Null)
     ELSE Done(updated, Some(CHOOSE r \in updated : TRUE))

(* Faulty variant: when no row has the id, one is inserted. *)
updateTaskUpsert(table, id, updates) ==
  LET hit == RowsById(table, id)
      blank == [id |-> id.val, title |-> "", completed |-> FALSE,
                createdAt |-> now, completedAt |-> Null]
      updated == {ApplyUpdates(r, updates) : r \in IF hit = {} THEN {blank} ELSE hit}
  IN IF DOMAIN updates = {} THEN Thrown(table, Null, ErrNoValues)
     ELSE IF ~InInt4(id) THEN Thrown(table, Null, ErrOutOfRange)
     ELSE IF ~PgBoolean(updates.completed).ok THEN Thrown(table, Null, ErrBoolean)
     ELSE IF PgBoolean(updates.completed).val = Null
       THEN Thrown(table, Null, ErrNotNull)
     ELSE Done((table \ hit) \cup updated, Some(CHOOSE r \in updated : TRUE))

updateTask(table, id, updates) ==
  LET hit == RowsById(table, id)
      updated == {ApplyUpdates(r, updates) : r \in hit}
  IN IF DOMAIN updates = {} THEN Thrown(table, Null, ErrNoValues)
     ELSE IF ~InInt4(id) THEN Thrown(table, Null, ErrOutOfRange)
     ELSE IF "completed" \in DOMAIN updates /\ ~PgBoolean(updates.completed).ok
       THEN Thrown(table, Null, ErrBoolean)
     ELSE IF hit = {} THEN Done(table, Null)
     ELSE IF "completed" \in DOMAIN updates /\ PgBoolean(updates.completed).val = Null
       THEN Thrown(table, Null, ErrNotNull)
     ELSE Done((table \ hit) \cup updated, Some(CHOOSE r \in updated : TRUE))

(* Faulty variant: the rows are selected, not deleted. *)
deleteTaskSelect(table, id) ==
  LET hit == RowsById(table, id)
  IN IF ~InInt4(id) THEN Thrown(table, FALSE, ErrOutOfRange)
     ELSE Done(table, Cardinality(hit) > 0)

(* Faulty variant: the delete has no WHERE clause. *)
deleteTaskNoWhere(table, id) ==
  LET hit == RowsById(table, id)
  IN IF ~InInt4(id) THEN Thrown(table, FALSE, ErrOutOfRange)
     ELSE Done(IF hit = {} THEN table ELSE {}, Cardinality(hit) > 0)

deleteTask(table, id) ==
  LET hit == RowsById(table, id)
  IN IF ~InInt4(id) THEN Thrown(table, FALSE, ErrOutOfRange)
     ELSE Done(table \ hit, Cardinality(hit) > 0)

----------------------------------------------------------------------------
(* Requests the clients may send.                                          *)

(* The :id segments: the decimal ids 1..MaxId and segments parseInt reads  *)
(* differently from a plain decimal number.                                *)
IdSegments ==
  {<<DecDigits[i + 1]>> : i \in 1..MaxId} \cup
  { <<"1", "a">>, <<"a", "1">>,
    <<"2", "1", "4", "7", "4", "8", "3", "6", "4", "8">> }

TitleInputs == {JUndefined, JStr("x")}

(* Titles at the edges of the documented 1-100 character range. *)
BoundaryTitleInputs == {JStr(""), JStr("x"), JStr(T100), JStr(T101)}

CompletedInputs ==
  {JUndefined, JNull, JBool(TRUE), JBool(FALSE), JStr("false"), JNum(0)}

NoUpdates == [k \in {} |-> Null]

(* The requests that race: PATCH with a boolean completed and DELETE on    *)
(* the decimal ids 1..MaxRaced, at most MaxInFlight PATCH requests being   *)
(* in flight.                                                              *)
RaceSegments == {<<DecDigits[i + 1]>> : i \in 1..MaxRaced}
RaceInputs == {JBool(TRUE), JBool(FALSE)}

(* parseInt of each segment a request may carry, computed once. *)
ParsedId == [seg \in IdSegments |-> parseInt(seg)]

(* The last request handled: its route, the id parseInt read from the path *)
(* (NaN on the routes without one), the status answered, the value the     *)
(* store returned (the task or the list; deleted holds what deleteTask     *)
(* returned), the message of the JSON body ("" when the body carries none) *)
(* and, for the record, the columns of the targeted row whose value the    *)
(* request changed.                                                        *)
Response(method, id, status, ret, message, changed) ==
  [method |-> method, id |-> id, status |-> status, ret |-> ret,
   deleted |-> FALSE, message |-> message, changed |-> changed]

Deleted(method, id, status, deleted, message) ==
  [Response(method, id, status, Null, message, {}) EXCEPT !.deleted = deleted]

(* An action of the toast reducer: toastId is Null when the action carries *)
(* none (undefined), toast holds the properties the action carries.  No    *)
(* action has been dispatched yet.                                         *)
NoProps == [k \in {} |-> Null]

Action(type, toastId, toast) == [type |-> type, toastId |-> toastId, toast |-> toast]

NoAction == Action("NONE", Null, NoProps)

Init ==
  /\ tasks = {}
  /\ seq = 0
  /\ now = 1
  /\ issued = <<>>
  /\ last = Response("NONE", NaN, 0, Null, "", {})
  /\ dbUp = TRUE
  /\ pending = {}
  /\ cache = Null
  /\ fetch = Some([phase |-> "sent", status |-> 0, list |-> <<>>])
  /\ mutation = Null
  /\ queryError = FALSE
  /\ servedAfter = Null
  /\ mutated = FALSE
  /\ shown = Null
  /\ toasted = Null
  /\ toasts = <<>>
  /\ toastTimeouts = <<>>
  /\ idCount = 0
  /\ dispatched = NoAction
  /\ logged = Null

(* What the routes leave alone. *)
env == <<dbUp, pending, client, toaster, logged>>

(* A statement sent through the pool: it throws when the database cannot   *)
(* be reached, leaving the table as it was.                                *)
execute(result, none) ==
  IF dbUp THEN result ELSE Thrown(tasks, none, ErrConnection)

(* The columns in which the row a statement returned differs from the row  *)
(* it targeted.                                                            *)
Columns == {"id", "title", "completed", "createdAt", "completedAt"}

Changed(before, r) ==
  IF r.threw \/ r.ret = Null THEN {}
  ELSE {c \in Columns : \E b \in before : b[c] # r.ret[1][c]}

(* The clock advances between requests; two requests may read the same time. *)
Tick ==
  /\ now < MaxTime
  /\ now' = now + 1
  /\ UNCHANGED <<tasks, seq, issued, last, env>>

(* The connection to the database is lost, and comes back. *)
DbFails ==
  /\ dbUp
  /\ dbUp' = FALSE
  /\ UNCHANGED <<tasks, seq, now, issued, last, pending, client, toaster, logged>>

DbRecovers ==
  /\ ~dbUp
  /\ dbUp' = TRUE
  /\ UNCHANGED <<tasks, seq, now, issued, last, pending, client, toaster, logged>>

(* GET /api/tasks, r being the outcome of storage.getAllTasks() *)
GetTasksResults ==
  IF dbUp THEN {Done(tasks, list) : list \in getAllTasks(tasks)}
  ELSE {Thrown(tasks, <<>>, ErrConnection)}

GetTasksReq(r) ==
  /\ last' = IF r.threw
             THEN Response("GET", NaN, 500, Null, "Failed to fetch tasks", {})
             ELSE Response("GET", NaN, 200, r.ret, "", {})
  /\ UNCHANGED <<tasks, seq, now, issued>>

GetTasks == \E r \in GetTasksResults : GetTasksReq(r) /\ UNCHANGED env

(* Faulty variant: the task is inserted before the body is validated. *)
PostTaskReqInsertFirst(title) ==
  LET body == [title |-> title]
      validatedData == insertTaskSchema(body)
      r == createTask(tasks, [title |-> title.s], seq + 1, now)
  IN /\ seq < MaxId
     /\ tasks' = r.table
     /\ seq' = seq + 1
     /\ issued' = Append(issued, r.ret[1].id)
     /\ last' = IF ~validatedData.ok
                THEN Response("POST", NaN, 400, Null, "Invalid task data", {})
                ELSE Response("POST", NaN, 201, r.ret, "", {})
     /\ UNCHANGED now

(* POST /api/tasks with the body given *)
PostBodyReq(body) ==
  LET validatedData == insertTaskSchema(body)
      r == execute(createTask(tasks, validatedData.data, seq + 1, now), Null)
  IN IF ~validatedData.ok
     THEN /\ last' = Response("POST", NaN, 400, Null, "Invalid task data", {})
          /\ UNCHANGED <<tasks, seq, now, issued>>
     ELSE IF r.threw
     THEN /\ last' = Response("POST", NaN, 500, Null, "Failed to create task", {})
          /\ UNCHANGED <<tasks, seq, now, issued>>
     ELSE /\ seq < MaxId
          /\ tasks' = r.table
          /\ seq' = seq + 1
          /\ issued' = Append(issued, r.ret[1].id)
          /\ last' = Response("POST", NaN, 201, r.ret, "", {})
          /\ UNCHANGED now

(* POST /api/tasks with body {title: title} *)
PostTaskReq(title) == PostBodyReq([title |-> title])

PostTask == \E title \in TitleInputs : PostTaskReq(title) /\ UNCHANGED env

(* The update data the PATCH handler prepares from req.body.completed. *)
PatchUpdates(completed) ==
  IF completed # JUndefined
  THEN [completed |-> completed,
        completedAt |-> IF Truthy(completed) THEN Some(now) ELSE Null]
  ELSE NoUpdates

PatchInvalidId(id) ==
  /\ last' = Response("PATCH", id, 400, Null, "Invalid task ID", {})
  /\ UNCHANGED <<tasks, seq, now, issued>>

(* Faulty variant: the message of the error caught is sent to the client. *)
PatchRespondLeak(id, r) ==
  /\ tasks' = r.table
  /\ last' = IF r.threw
             THEN Response("PATCH", id, 500, r.ret, r.error, {})
             ELSE IF r.ret = Null
             THEN Response("PATCH", id, 404, r.ret, "Task not found", {})
             ELSE Response("PATCH", id, 200, r.ret, "", Changed(RowsById(tasks, id), r))
  /\ UNCHANGED <<seq, now, issued>>

(* The PATCH handler from the return of storage.updateTask on, r being its *)
(* outcome.                                                                *)
PatchRespond(id, r) ==
  /\ tasks' = r.table
  /\ last' = IF r.threw
             THEN Response("PATCH", id, 500, r.ret, "Failed to update task", {})
             ELSE IF r.ret = Null
             THEN Response("PATCH", id, 404, r.ret, "Task not found", {})
             ELSE Response("PATCH", id, 200, r.ret, "", Changed(RowsById(tasks, id), r))
  /\ UNCHANGED <<seq, now, issued>>

(* Faulty variant: completedAt is stamped whatever the target value. *)
PatchTaskReqStamp(seg, completed) ==
  LET id == ParsedId[seg]
      updates == IF completed # JUndefined
                 THEN [completed |-> completed, completedAt |-> Some(now)]
                 ELSE NoUpdates
  IN IF isNaN(id)
     THEN PatchInvalidId(id)
     ELSE PatchRespond(id, execute(updateTask(tasks, id, updates), Null))

(* PATCH /api/tasks/:id with body {completed: completed} *)
PatchTaskReq(seg, completed) ==
  LET id == ParsedId[seg]
      updates == PatchUpdates(completed)
  IN IF isNaN(id)
     THEN PatchInvalidId(id)
     ELSE PatchRespond(id, execute(updateTask(tasks, id, updates), Null))

PatchTask ==
  \E seg \in IdSegments, completed \in CompletedInputs :
    PatchTaskReq(seg, completed) /\ UNCHANGED env

(* A PATCH handler runs up to its await of storage.updateTask, the update   *)
(* data prepared with the time read then; its UPDATE statement is run      *)
(* later, other requests being handled in between.  Requests in flight     *)
(* with the same id and update data are held once.                         *)
PatchBeginReq(seg, completed) ==
  LET id == ParsedId[seg]
  IN IF isNaN(id)
     THEN PatchInvalidId(id) /\ UNCHANGED pending
     ELSE /\ pending' = pending \cup {[id |-> id, updates |-> PatchUpdates(completed)]}
          /\ UNCHANGED <<tasks, seq, now, issued, last>>

PatchBegin ==
  \E seg \in RaceSegments, completed \in RaceInputs :
    /\ Cardinality(pending) < MaxInFlight
    /\ PatchBeginReq(seg, completed)
    /\ UNCHANGED <<dbUp, client, toaster, logged>>

(* Faulty variant: the statement sets completed alone, completedAt being   *)
(* written by a second statement that has not run yet.                     *)
PatchApplyReqSplit(req) ==
  /\ PatchRespond(req.id,
                  execute(updateTask(tasks, req.id,
                                     [completed |-> req.updates.completed]), Null))
  /\ pending' = pending \ {req}

(* The UPDATE of a request in flight runs, as one statement, and the       *)
(* handler answers.                                                        *)
PatchApplyReq(req) ==
  /\ PatchRespond(req.id, execute(updateTask(tasks, req.id, req.updates), Null))
  /\ pending' = pending \ {req}

PatchApply == \E req \in pending : PatchApplyReq(req) /\ UNCHANGED <<dbUp, client, toaster, logged>>

(* Faulty variant: the handler does not look at the store's result. *)
DeleteTaskReqNoCheck(seg) ==
  LET id == ParsedId[seg]
      r == execute(deleteTask(tasks, id), FALSE)
  IN IF isNaN(id)
     THEN /\ last' = Response("DELETE", id, 400, Null, "Invalid task ID", {})
          /\ UNCHANGED <<tasks, seq, now, issued>>
     ELSE /\ tasks' = r.table
          /\ last' = IF r.threw
                     THEN Deleted("DELETE", id, 500, r.ret, "Failed to delete task")
                     ELSE Deleted("DELETE", id, 204, r.ret, "")
          /\ UNCHANGED <<seq, now, issued>>

(* DELETE /api/tasks/:id *)
DeleteTaskReq(seg) ==
  LET id == ParsedId[seg]
      r == execute(deleteTask(tasks, id), FALSE)
  IN IF isNaN(id)
     THEN /\ last' = Response("DELETE", id, 400, Null, "Invalid task ID", {})
          /\ UNCHANGED <<tasks, seq, now, issued>>
     ELSE /\ tasks' = r.table
          /\ last' = IF r.threw
                     THEN Deleted("DELETE", id, 500, r.ret, "Failed to delete task")
                     ELSE IF ~r.ret
                     THEN Deleted("DELETE", id, 404, r.ret, "Task not found")
                     ELSE Deleted("DELETE", id, 204, r.ret, "")
          /\ UNCHANGED <<seq, now, issued>>

DeleteTask == \E seg \in IdSegments : DeleteTaskReq(seg) /\ UNCHANGED env

(* POST /api/tasks with the titles at the edges of the documented range. *)
PostBoundaryTask ==
  \E title \in BoundaryTitleInputs : PostTaskReq(title) /\ UNCHANGED env

(* Requests are handled one at a time, each store call being one atomic    *)
(* statement.  The database is reachable throughout: a statement fails     *)
(* only for the reasons updateTask and deleteTask state.  One clock stands *)
(* for the database's now() and the server's new Date().                   *)
Next == Tick \/ GetTasks \/ PostTask \/ PatchTask \/ DeleteTask

Spec == Init /\ [][Next]_vars

(* Creation, listing and deletion alone, over the boundary titles. *)
NextBoundary == PostBoundaryTask \/ GetTasks \/ DeleteTask

SpecBoundary == Init /\ [][NextBoundary]_vars

(* Requests handled concurrently: between the start of a PATCH handler and *)
(* its UPDATE statement other requests are handled.                        *)
PostRaced == seq < MaxRaced /\ PostTask

DeleteRaced == \E seg \in RaceSegments : DeleteTaskReq(seg) /\ UNCHANGED env

NextConcurrent == Tick \/ PostRaced \/ PatchBegin \/ PatchApply \/ DeleteRaced

SpecConcurrent == Init /\ [][NextConcurrent]_vars

(* The four routes while the connection to the database comes and goes. *)
NextFailure ==
  DbFails \/ DbRecovers \/ GetTasks \/ PostTask \/ PatchTask \/ DeleteTask

SpecFailure == Init /\ [][NextFailure]_vars

----------------------------------------------------------------------------
(* The client: the query ["/api/tasks"] of Home, the three mutations of    *)
(* useTaskMutations and the lists Home renders.                            *)

(* Home mounts: the query has no data and its first fetch is on its way. *)
Sent == [phase |-> "sent", status |-> 0, list |-> <<>>]
Replied(status, list) == [phase |-> "replied", status |-> status, list |-> list]

(* The requests Home sends: a create with a title the form accepts, and a  *)
(* toggle or a delete of a task of the cached list.                        *)
Segment(id) == <<DecDigits[id + 1]>>

ClientRequests ==
  LET shownTasks == IF cache = Null THEN {} ELSE Range(cache[1])
  IN {[method |-> "POST", seg |-> <<>>, completed |-> JUndefined]}
     \cup {[method |-> "PATCH", seg |-> Segment(t.id), completed |-> JBool(~t.completed)] :
             t \in shownTasks}
     \cup {[method |-> "DELETE", seg |-> Segment(t.id), completed |-> JUndefined] :
             t \in shownTasks}

(* mutate(): the request leaves; one mutation is in flight at a time. *)
MutateSend ==
  \E req \in ClientRequests :
    /\ mutation = Null
    /\ req.method = "POST" => seq < MaxId
    /\ mutation' = Some([req |-> req, phase |-> "sent", status |-> 0])
    /\ UNCHANGED <<tasks, seq, now, issued, last, dbUp, pending, toaster, logged>>
    /\ UNCHANGED <<cache, fetch, queryError, servedAfter, mutated, shown, toasted>>

(* The server handles the mutation's request. *)
MutateServe ==
  /\ mutation # Null
  /\ mutation[1].phase = "sent"
  /\ CASE mutation[1].req.method = "POST" -> PostTaskReq(JStr("x"))
       [] mutation[1].req.method = "PATCH" ->
            PatchTaskReq(mutation[1].req.seg, mutation[1].req.completed)
       [] OTHER -> DeleteTaskReq(mutation[1].req.seg)
  /\ mutation' = Some([mutation[1] EXCEPT !.phase = "replied", !.status = last'.status])
  /\ UNCHANGED <<dbUp, pending, toaster, logged>>
  /\ UNCHANGED <<cache, fetch, queryError, servedAfter, mutated, shown, toasted>>

(* apiRequest: throwIfResNotOk rejects on a status outside 200..299. *)
ResOk(status) == status \in 200..299

(* The toast onSuccess and onError show; variant is "default" where the    *)
(* call gives none.                                                        *)
SettledToast(req, ok) ==
  IF ~ok
  THEN [title |-> "Error",
        description |-> CASE req.method = "POST" -> "Failed to add task. Please try again."
                          [] req.method = "PATCH" -> "Failed to update task. Please try again."
                          [] OTHER -> "Failed to delete task. Please try again.",
        variant |-> "destructive"]
  ELSE CASE req.method = "POST" ->
              [title |-> "Success", description |-> "Task added successfully!",
               variant |-> "default"]
         [] req.method = "PATCH" ->
              IF req.completed.b
              THEN [title |-> "Task completed!", description |-> "Great job!",
                    variant |-> "default"]
              ELSE [title |-> "Task marked as pending",
                    description |-> "Task moved back to pending", variant |-> "default"]
         [] OTHER ->
              [title |-> "Task deleted",
               description |-> "The task has been removed successfully.",
               variant |-> "default"]

(* Faulty variant: onSuccess does not invalidate the query. *)
MutateSettleNoInvalidate ==
  /\ mutation # Null
  /\ mutation[1].phase = "replied"
  /\ mutation' = Null
  /\ mutated' = (mutated \/ ResOk(mutation[1].status))
  /\ servedAfter' = IF ResOk(mutation[1].status) THEN Null ELSE servedAfter
  /\ toasted' = Some(SettledToast(mutation[1].req, ResOk(mutation[1].status)))
  /\ UNCHANGED <<tasks, seq, now, issued, last, dbUp, pending, toaster, logged>>
  /\ UNCHANGED <<cache, fetch, queryError, shown>>

(* Faulty variant: onError invalidates the query too. *)
MutateSettleInvalidateOnError ==
  /\ mutation # Null
  /\ mutation[1].phase = "replied"
  /\ mutation' = Null
  /\ fetch' = Some(Sent)
  /\ IF ResOk(mutation[1].status)
     THEN mutated' = TRUE /\ servedAfter' = Null
     ELSE UNCHANGED <<mutated, servedAfter>>
  /\ toasted' = Some(SettledToast(mutation[1].req, ResOk(mutation[1].status)))
  /\ UNCHANGED <<tasks, seq, now, issued, last, dbUp, pending, toaster, logged>>
  /\ UNCHANGED <<cache, queryError, shown>>

(* The mutation settles.  onSuccess invalidates the query: a fetch in      *)
(* flight is cancelled and the mounted query fetches again.  onError only  *)
(* shows a toast.  mutated and servedAfter record, for the properties,     *)
(* that a mutation has succeeded and the list the server has sent since    *)
(* the last one did.                                                       *)
MutateSettle ==
  /\ mutation # Null
  /\ mutation[1].phase = "replied"
  /\ mutation' = Null
  /\ IF ResOk(mutation[1].status)
     THEN /\ fetch' = Some(Sent)
          /\ mutated' = TRUE
          /\ servedAfter' = Null
     ELSE UNCHANGED <<fetch, mutated, servedAfter>>
  /\ toasted' = Some(SettledToast(mutation[1].req, ResOk(mutation[1].status)))
  /\ UNCHANGED <<tasks, seq, now, issued, last, dbUp, pending, toaster, logged>>
  /\ UNCHANGED <<cache, queryError, shown>>

(* The server handles the query's GET /api/tasks. *)
FetchServe ==
  /\ fetch = Some(Sent)
  /\ \E r \in GetTasksResults :
       /\ GetTasksReq(r)
       /\ fetch' = Some(Replied(last'.status, r.ret))
       /\ servedAfter' = IF r.threw THEN servedAfter ELSE Some(r.ret)
  /\ UNCHANGED <<dbUp, pending, toaster, logged>>
  /\ UNCHANGED <<cache, mutation, queryError, mutated, shown, toasted>>

(* The fetch settles: the list becomes the query's data, or the query goes *)
(* to its error state keeping the data it had (retry is false).            *)
FetchSettle ==
  /\ fetch # Null
  /\ fetch[1].phase = "replied"
  /\ fetch' = Null
  /\ IF ResOk(fetch[1].status)
     THEN cache' = Some(fetch[1].list) /\ queryError' = FALSE
     ELSE cache' = cache /\ queryError' = TRUE
  /\ UNCHANGED <<tasks, seq, now, issued, last, dbUp, pending, toaster, logged>>
  /\ UNCHANGED <<mutation, servedAfter, mutated, shown, toasted>>

(* new Date(createdAt).getTime(): the JSON date carries milliseconds, a    *)
(* unit ClockPerMs times coarser than the clock of the timestamp column.   *)
getTime(createdAt) == createdAt \div ClockPerMs

(* Faulty variant: oldest first within a group. *)
compareTasksOldestFirst(a, b) ==
  IF a.completed = b.completed
  THEN getTime(a.createdAt) - getTime(b.createdAt)
  ELSE IF a.completed THEN 1 ELSE -1

(* The comparator of sortedTasks. *)
compareTasks(a, b) ==
  IF a.completed = b.completed
  THEN getTime(b.createdAt) - getTime(a.createdAt)
  ELSE IF a.completed THEN 1 ELSE -1

(* Array.prototype.sort, which is stable: insertion sort, each element     *)
(* moving left past the elements that compare greater than it.             *)
RECURSIVE InsertAt(_, _, _)
InsertAt(sorted, x, j) ==
  IF j >= 1 /\ compareTasks(sorted[j], x) > 0
  THEN InsertAt(sorted, x, j - 1)
  ELSE SubSeq(sorted, 1, j) \o <<x>> \o SubSeq(sorted, j + 1, Len(sorted))

RECURSIVE sort(_)
sort(list) ==
  IF list = <<>> THEN <<>>
  ELSE LET n == Len(list)
           front == sort(SubSeq(list, 1, n - 1))
       IN InsertAt(front, list[n], n - 1)

sortedTasks(list) == sort(list)

(* Home renders the query's data ([] while there is none). *)
Render ==
  LET data == IF cache = Null THEN <<>> ELSE cache[1]
      sorted == sortedTasks(data)
      isPending(t) == ~t.completed
      isCompleted(t) == t.completed
  IN /\ shown' = Some([sortedTasks |-> sorted,
                       pendingTasks |-> SelectSeq(sorted, isPending),
                       completedTasks |-> SelectSeq(sorted, isCompleted)])
     /\ shown' # shown
     /\ UNCHANGED <<tasks, seq, now, issued, last, dbUp, pending, toaster, logged>>
     /\ UNCHANGED <<cache, fetch, mutation, queryError, servedAfter, mutated, toasted>>

(* One client and the server, the connection to the database coming and    *)
(* going.                                                                  *)
NextClient ==
  \/ MutateSend \/ MutateServe \/ MutateSettle
  \/ FetchServe \/ FetchSettle
  \/ DbFails \/ DbRecovers

SpecClient == Init /\ [][NextClient]_vars

(* Home rendering the list of a table that earlier requests left: up to    *)
(* MaxId tasks created at times up to MaxSortTime, in the order of their   *)
(* ids, some deleted since and some completed.                             *)
InitSort ==
  \E n \in 0..MaxId :
    \E times \in [1..n -> 1..MaxSortTime], kept \in SUBSET (1..n) :
      \E done \in SUBSET kept :
        /\ \A i, j \in 1..n : i < j => times[i] <= times[j]
        /\ tasks = {[id |-> i, title |-> "x", completed |-> i \in done,
                     createdAt |-> times[i],
                     completedAt |-> IF i \in done THEN Some(MaxSortTime) ELSE Null] :
                      i \in kept}
        /\ seq = n
        /\ now = MaxSortTime
        /\ issued = [i \in 1..n |-> i]
        /\ last = Response("NONE", NaN, 0, Null, "", {})
        /\ dbUp = TRUE
        /\ pending = {}
        /\ cache = Null
        /\ fetch = Some(Sent)
        /\ mutation = Null
        /\ queryError = FALSE
        /\ servedAfter = Null
        /\ mutated = FALSE
        /\ shown = Null
        /\ toasted = Null
        /\ toasts = <<>>
        /\ toastTimeouts = <<>>
        /\ idCount = 0
        /\ dispatched = NoAction
        /\ logged = Null

NextSort == FetchServe \/ FetchSettle \/ Render

SpecSort == InitSort /\ [][NextSort]_vars

----------------------------------------------------------------------------
(* The storage layer called on its own, as any module holding the storage  *)
(* object may call it: createTask, deleteTask, and updateTask with the     *)
(* update data its parameter type admits, completed alone or completed     *)
(* with completedAt.                                                       *)

StorageUpdateInputs ==
  {[completed |-> JBool(v)] : v \in BOOLEAN} \cup
  {[completed |-> JBool(v), completedAt |-> IF v THEN Some(now) ELSE Null] :
     v \in BOOLEAN}

StorageCreate ==
  LET r == createTask(tasks, [title |-> "x"], seq + 1, now)
  IN /\ seq < MaxId
     /\ tasks' = r.table
     /\ seq' = seq + 1
     /\ issued' = Append(issued, r.ret[1].id)
     /\ last' = Response("createTask", NaN, 0, r.ret, "", {})
     /\ UNCHANGED <<now, env>>

StorageUpdateCall(i, updates) ==
  LET r == updateTask(tasks, Num(i), updates)
  IN /\ tasks' = r.table
     /\ last' = Response("updateTask", Num(i), 0, r.ret, r.error,
                         Changed(RowsById(tasks, Num(i)), r))
     /\ UNCHANGED <<seq, now, issued>>

StorageUpdate ==
  \E i \in 1..MaxId, updates \in StorageUpdateInputs :
    StorageUpdateCall(i, updates) /\ UNCHANGED env

StorageDelete ==
  \E i \in 1..MaxId :
    LET r == deleteTask(tasks, Num(i))
    IN /\ tasks' = r.table
       /\ last' = Deleted("deleteTask", Num(i), 0, r.ret, r.error)
       /\ UNCHANGED <<seq, now, issued, env>>

NextStorage == Tick \/ StorageCreate \/ StorageUpdate \/ StorageDelete

SpecStorage == Init /\ [][NextStorage]_vars

----------------------------------------------------------------------------
(* The toast hook: memoryState.toasts, the toastTimeouts map and genId.    *)
(* A toast has id, open, title and variant; ids are the values of count,   *)
(* which stays below MaxToasts, far from the wrap of genId.  The removal   *)
(* timers all have the delay TOAST_REMOVE_DELAY, so they fire in the order *)
(* they were set, which is the order of toastTimeouts.                     *)

TOAST_LIMIT == 1

(* Array.prototype.slice(0, end) *)
slice(list, end) == SubSeq(list, 1, IF Len(list) < end THEN Len(list) ELSE end)

(* { ...t, ...props } *)
Merge(t, props) ==
  [k \in DOMAIN t \cup DOMAIN props |-> IF k \in DOMAIN props THEN props[k] ELSE t[k]]

(* Faulty variant: the list is not cut to the limit. *)
reducerNoLimit(state, action) ==
  CASE action.type = "ADD_TOAST" ->
         [state EXCEPT !.toasts = <<action.toast>> \o state.toasts]
    [] action.type = "UPDATE_TOAST" ->
         [state EXCEPT !.toasts =
            [i \in DOMAIN state.toasts |->
               IF state.toasts[i].id = action.toast.id
               THEN Merge(state.toasts[i], action.toast)
               ELSE state.toasts[i]]]
    [] action.type = "DISMISS_TOAST" ->
         [state EXCEPT !.toasts =
            [i \in DOMAIN state.toasts |->
               IF Some(state.toasts[i].id) = action.toastId \/ action.toastId = Null
               THEN [state.toasts[i] EXCEPT !.open = FALSE]
               ELSE state.toasts[i]]]
    [] OTHER ->
         IF action.toastId = Null
         THEN [state EXCEPT !.toasts = <<>>]
         ELSE [state EXCEPT !.toasts =
                 SelectSeq(state.toasts, LAMBDA t : Some(t.id) # action.toastId)]

(* Faulty variant: UPDATE_TOAST replaces the toast by the given properties. *)
reducerReplace(state, action) ==
  CASE action.type = "ADD_TOAST" ->
         [state EXCEPT !.toasts = slice(<<action.toast>> \o state.toasts, TOAST_LIMIT)]
    [] action.type = "UPDATE_TOAST" ->
         [state EXCEPT !.toasts =
            [i \in DOMAIN state.toasts |->
               IF state.toasts[i].id = action.toast.id
               THEN Merge([state.toasts[i] EXCEPT !.title = "", !.variant = "default"],
                          action.toast)
               ELSE state.toasts[i]]]
    [] action.type = "DISMISS_TOAST" ->
         [state EXCEPT !.toasts =
            [i \in DOMAIN state.toasts |->
               IF Some(state.toasts[i].id) = action.toastId \/ action.toastId = Null
               THEN [state.toasts[i] EXCEPT !.open = FALSE]
               ELSE state.toasts[i]]]
    [] OTHER ->
         IF action.toastId = Null
         THEN [state EXCEPT !.toasts = <<>>]
         ELSE [state EXCEPT !.toasts =
                 SelectSeq(state.toasts, LAMBDA t : Some(t.id) # action.toastId)]

(* Faulty variant: REMOVE_TOAST with an id no toast has clears the list. *)
reducerRemoveClears(state, action) ==
  CASE action.type = "ADD_TOAST" ->
         [state EXCEPT !.toasts = slice(<<action.toast>> \o state.toasts, TOAST_LIMIT)]
    [] action.type = "UPDATE_TOAST" ->
         [state EXCEPT !.toasts =
            [i \in DOMAIN state.toasts |->
               IF state.toasts[i].id = action.toast.id
               THEN Merge(state.toasts[i], action.toast)
               ELSE state.toasts[i]]]
    [] action.type = "DISMISS_TOAST" ->
         [state EXCEPT !.toasts =
            [i \in DOMAIN state.toasts |->
               IF Some(state.toasts[i].id) = action.toastId \/ action.toastId = Null
               THEN [state.toasts[i] EXCEPT !.open = FALSE]
               ELSE state.toasts[i]]]
    [] OTHER -> [state EXCEPT !.toasts = <<>>]

reducer(state, action) ==
  CASE action.type = "ADD_TOAST" ->
         [state EXCEPT !.toasts = slice(<<action.toast>> \o state.toasts, TOAST_LIMIT)]
    [] action.type = "UPDATE_TOAST" ->
         [state EXCEPT !.toasts =
            [i \in DOMAIN state.toasts |->
               IF state.toasts[i].id = action.toast.id
               THEN Merge(state.toasts[i], action.toast)
               ELSE state.toasts[i]]]
    [] action.type = "DISMISS_TOAST" ->
         [state EXCEPT !.toasts =
            [i \in DOMAIN state.toasts |->
               IF Some(state.toasts[i].id) = action.toastId \/ action.toastId = Null
               THEN [state.toasts[i] EXCEPT !.open = FALSE]
               ELSE state.toasts[i]]]
    [] OTHER ->
         IF action.toastId = Null
         THEN [state EXCEPT !.toasts = <<>>]
         ELSE [state EXCEPT !.toasts =
                 SelectSeq(state.toasts, LAMBDA t : Some(t.id) # action.toastId)]

(* Faulty variant: a timer is set whether or not the id has one. *)
addToRemoveQueueAgain(timeouts, toastId) == Append(timeouts, toastId)

(* toastTimeouts after addToRemoveQueue(toastId) *)
addToRemoveQueue(timeouts, toastId) ==
  IF \E i \in DOMAIN timeouts : timeouts[i] = toastId
  THEN timeouts
  ELSE Append(timeouts, toastId)

(* state.toasts.forEach((toast) => addToRemoveQueue(toast.id)) *)
RECURSIVE addAllToRemoveQueue(_, _)
addAllToRemoveQueue(timeouts, list) ==
  IF list = <<>> THEN timeouts
  ELSE addAllToRemoveQueue(addToRemoveQueue(timeouts, Head(list).id), Tail(list))

(* toastTimeouts after the reducer has run on the action: DISMISS_TOAST    *)
(* queues the toast named, or every toast when it names none.              *)
Queued(timeouts, state, action) ==
  IF action.type # "DISMISS_TOAST" THEN timeouts
  ELSE IF action.toastId # Null THEN addToRemoveQueue(timeouts, action.toastId[1])
  ELSE addAllToRemoveQueue(timeouts, state.toasts)

(* dispatch(action), timeouts being toastTimeouts when it is called *)
dispatch(timeouts, action) ==
  /\ toasts' = reducer([toasts |-> toasts], action).toasts
  /\ toastTimeouts' = Queued(timeouts, [toasts |-> toasts], action)
  /\ dispatched' = action

(* What the toast hook leaves alone. *)
backend == <<tasks, seq, now, issued, last, dbUp, pending, client, logged>>

(* The properties toast() and update() are called with. *)
ToastInputs ==
  {[title |-> "Success", variant |-> "default"],
   [title |-> "Error", variant |-> "destructive"]}

ToastUpdateInputs ==
  {[title |-> "Updated"], [open |-> TRUE], [title |-> "Updated", variant |-> "destructive"]}

(* The ids of the toasts created so far, and no id. *)
ToastIds == {Null} \cup {Some(i) : i \in 1..idCount}

(* toast(props) *)
Toast ==
  \E props \in ToastInputs :
    /\ idCount < MaxToasts
    /\ idCount' = idCount + 1
    /\ dispatch(toastTimeouts,
                Action("ADD_TOAST", Null,
                       [id |-> idCount + 1, open |-> TRUE,
                        title |-> props.title, variant |-> props.variant]))
    /\ UNCHANGED backend

(* update(props) of the handle toast() returned for id *)
ToastUpdate ==
  \E id \in 1..idCount, props \in ToastUpdateInputs :
    /\ dispatch(toastTimeouts,
                Action("UPDATE_TOAST", Null, Merge(props, [id |-> id])))
    /\ UNCHANGED <<idCount, backend>>

(* dismiss() of a handle, onOpenChange(false) of a toast, or dismiss(id)   *)
(* and dismiss() of useToast                                               *)
ToastDismiss ==
  \E toastId \in ToastIds :
    /\ dispatch(toastTimeouts, Action("DISMISS_TOAST", toastId, NoProps))
    /\ UNCHANGED <<idCount, backend>>

(* Faulty variant: the timer's callback forgets the timer and dispatches   *)
(* nothing.                                                                *)
TimerFiresNoRemove ==
  /\ toastTimeouts # <<>>
  /\ toastTimeouts' = Tail(toastTimeouts)
  /\ dispatched' = Action("REMOVE_TOAST", Some(Head(toastTimeouts)), NoProps)
  /\ UNCHANGED <<toasts, idCount, backend>>

(* The oldest removal timer fires. *)
TimerFires ==
  /\ toastTimeouts # <<>>
  /\ dispatch(Tail(toastTimeouts),
              Action("REMOVE_TOAST", Some(Head(toastTimeouts)), NoProps))
  /\ UNCHANGED <<idCount, backend>>

(* REMOVE_TOAST reaching the reducer from elsewhere, with an id or none. *)
ToastRemove ==
  \E toastId \in ToastIds :
    /\ dispatch(toastTimeouts, Action("REMOVE_TOAST", toastId, NoProps))
    /\ UNCHANGED <<idCount, backend>>

NextToast == Toast \/ ToastUpdate \/ ToastDismiss \/ TimerFires \/ ToastRemove

SpecToast == Init /\ [][NextToast]_vars

(* A timer that was set runs when its delay has passed. *)
SpecToastLive == SpecToast /\ WF_vars(TimerFires)

----------------------------------------------------------------------------
(* Two clients.  The second one holds the same cached list as the first,   *)
(* and toggles a task of it: Home sends the negation of the completed flag *)
(* it holds, and the server handles the request.  At most MaxRaced tasks   *)
(* are created.                                                            *)

PeerToggleReq(t) == PatchTaskReq(Segment(t.id), JBool(~t.completed))

PeerToggle ==
  /\ cache # Null
  /\ \E t \in Range(cache[1]) : PeerToggleReq(t) /\ UNCHANGED env

MutateSendRaced ==
  /\ MutateSend
  /\ mutation'[1].req.method = "POST" => seq < MaxRaced

NextPeers ==
  \/ Tick
  \/ MutateSendRaced
  \/ MutateServe
  \/ MutateSettle
  \/ FetchServe
  \/ FetchSettle
  \/ PeerToggle

SpecPeers == Init /\ [][NextPeers]_vars

----------------------------------------------------------------------------
(* POST /api/tasks with bodies that carry more than a title: the columns   *)
(* of a task that is completed, with an id and times of the caller's       *)
(* choosing.  Such bodies carry the title "forged".                        *)

PostBodyInputs ==
  {[title |-> JStr("x")],
   [title |-> JStr("forged"), completed |-> TRUE],
   [title |-> JStr("forged"), id |-> MaxId + 1, completed |-> TRUE,
    createdAt |-> 0, completedAt |-> Some(0)],
   [title |-> JUndefined, id |-> MaxId + 1, completed |-> TRUE]}

PostTaskBody == \E body \in PostBodyInputs : PostBodyReq(body) /\ UNCHANGED env

NextBodies == Tick \/ GetTasks \/ PostTaskBody \/ DeleteTask

SpecBodies == Init /\ [][NextBodies]_vars

----------------------------------------------------------------------------
(* The request logging middleware.  Texts are strings; logged holds, for   *)
(* the last request that finished, its path, the line built before the     *)
(* length check (full) and the line passed to log(), Null when log() was   *)
(* not called.                                                             *)

(* U+2026, the one character appended to a line that was cut; written as a *)
(* character no line contains otherwise.                                   *)
Ellipsis == "~"

(* String.prototype.startsWith *)
startsWith(s, prefix) ==
  Len(s) >= Len(prefix) /\ SubSeq(s, 1, Len(prefix)) = prefix

(* JSON.stringify of what the routes give res.json: a message object, the  *)
(* validation error of a body without title, a task, a list of tasks.      *)
Quote(s) == "\"" \o s \o "\""

toISOString(time) == "1970-01-01T00:00:00.00" \o ToString(time) \o "Z"

stringifyMessage(message) == "{\"message\":" \o Quote(message) \o "}"

stringifyInvalid(message) ==
  "{\"message\":" \o Quote(message) \o ",\"errors\":[{\"code\":\"invalid_type\","
    \o "\"expected\":\"string\",\"received\":\"undefined\",\"path\":[\"title\"],"
    \o "\"message\":\"Required\"}]}"

stringifyTask(task) ==
  "{\"id\":" \o ToString(task.id)
    \o ",\"title\":" \o Quote(task.title)
    \o ",\"completed\":" \o (IF task.completed THEN "true" ELSE "false")
    \o ",\"createdAt\":" \o Quote(toISOString(task.createdAt))
    \o ",\"completedAt\":"
    \o (IF task.completedAt = Null THEN "null"
        ELSE Quote(toISOString(task.completedAt[1])))
    \o "}"

RECURSIVE stringifyRest(_)
stringifyRest(list) ==
  IF list = <<>> THEN ""
  ELSE "," \o stringifyTask(Head(list)) \o stringifyRest(Tail(list))

stringifyList(list) ==
  IF list = <<>> THEN "[]"
  ELSE "[" \o stringifyTask(Head(list)) \o stringifyRest(Tail(list)) \o "]"

(* capturedJsonResponse, stringified, for the response of a task route;    *)
(* Null when res.json was not called (204).                                *)
CapturedJson(response) ==
  IF response.status = 204 THEN Null
  ELSE IF response.message = "Invalid task data"
    THEN Some(stringifyInvalid(response.message))
  ELSE IF response.message # "" THEN Some(stringifyMessage(response.message))
  ELSE IF response.method = "GET" THEN Some(stringifyList(response.ret))
  ELSE Some(stringifyTask(response.ret[1]))

(* Faulty variant: a long line is cut to 80 characters before the ellipsis *)
(* is appended.                                                            *)
truncateKeep80(logLine) ==
  IF Len(logLine) > 80 THEN SubSeq(logLine, 1, 80) \o Ellipsis ELSE logLine

(* if (logLine.length > 80) logLine = logLine.slice(0, 79) + ellipsis *)
truncate(logLine) ==
  IF Len(logLine) > 80 THEN SubSeq(logLine, 1, 79) \o Ellipsis ELSE logLine

(* The line built in the finish handler. *)
LogLine(method, path, statusCode, duration, captured) ==
  LET line == method \o " " \o path \o " " \o ToString(statusCode)
                \o " in " \o ToString(duration) \o "ms"
  IN IF captured # Null THEN line \o " :: " \o captured[1] ELSE line

(* res.on("finish", ...) of a request *)
finish(method, path, statusCode, duration, captured) ==
  LET full == LogLine(method, path, statusCode, duration, captured)
  IN logged' = Some([path |-> path, full |-> full,
                     line |-> IF startsWith(path, "/api")
                              THEN Some(truncate(full))
                              ELSE Null])

(* The path of a task route: the characters of the :id segment joined. *)
RECURSIVE Join(_)
Join(seg) == IF seg = <<>> THEN "" ELSE Head(seg) \o Join(Tail(seg))

TaskPath(seg) == "/api/tasks/" \o Join(seg)

(* Milliseconds between the arrival of a request and its finish. *)
Durations == {0, 1500}

(* Paths outside the task routes, served by Vite or from the built files. *)
OtherPaths == {"/", "/src/main.tsx", "/apiary"}

(* What a request leaves alone besides the log. *)
unlogged == <<dbUp, pending, client, toaster>>

LogGetTasks ==
  \E r \in GetTasksResults, duration \in Durations :
    /\ GetTasksReq(r)
    /\ finish("GET", "/api/tasks", last'.status, duration, CapturedJson(last'))
    /\ UNCHANGED unlogged

LogPostTask ==
  \E title \in TitleInputs, duration \in Durations :
    /\ PostTaskReq(title)
    /\ finish("POST", "/api/tasks", last'.status, duration, CapturedJson(last'))
    /\ UNCHANGED unlogged

LogPatchTask ==
  \E seg \in IdSegments, completed \in CompletedInputs, duration \in Durations :
    /\ PatchTaskReq(seg, completed)
    /\ finish("PATCH", TaskPath(seg), last'.status, duration, CapturedJson(last'))
    /\ UNCHANGED unlogged

LogDeleteTask ==
  \E seg \in IdSegments, duration \in Durations :
    /\ DeleteTaskReq(seg)
    /\ finish("DELETE", TaskPath(seg), last'.status, duration, CapturedJson(last'))
    /\ UNCHANGED unlogged

LogOther ==
  \E path \in OtherPaths, duration \in Durations :
    /\ finish("GET", path, 200, duration, Null)
    /\ UNCHANGED <<tasks, seq, now, issued, last, unlogged>>

NextLog == LogGetTasks \/ LogPostTask \/ LogPatchTask \/ LogDeleteTask \/ LogOther

SpecLog == Init /\ [][NextLog]_vars

----------------------------------------------------------------------------
(* Properties.                                                             *)

Ids(table) == {r.id : r \in table}

(* A path segment that is a plain decimal number. *)
IsDecimal(seg) == seg # <<>> /\ \A i \in DOMAIN seg : DigitVal(seg[i], DecDigits) >= 0

(* C1: in every reachable state every stored task has completedAt non-null *)
(* if and only if completed is true.                                       *)
C1_CompletedAtIffCompleted ==
  \A r \in tasks : (r.completedAt # Null) <=> r.completed

(* C2 as stated: GET /api/tasks returns every task exactly once, pending   *)
(* tasks before completed ones, and within each group in strictly          *)
(* descending createdAt order.                                             *)
ListsEveryTaskOnce(list, table) ==
  /\ Len(list) = Cardinality(table)
  /\ Range(list) = table

PendingFirst(list) ==
  \A i, j \in DOMAIN list : i < j => ~(list[i].completed /\ ~list[j].completed)

C2_ListStrictlyDescending ==
  last.method = "GET" =>
    /\ ListsEveryTaskOnce(last.ret, tasks)
    /\ PendingFirst(last.ret)
    /\ \A i, j \in DOMAIN last.ret :
         i < j /\ last.ret[i].completed = last.ret[j].completed
           => last.ret[i].createdAt > last.ret[j].createdAt

(* C2 amended: GET /api/tasks returns every task exactly once, pending     *)
(* tasks before completed ones, and within each group no task comes before *)
(* one created later; tasks of a group with equal createdAt come in either *)
(* order.                                                                  *)
C2_ListOrdered ==
  last.method = "GET" =>
    /\ ListsEveryTaskOnce(last.ret, tasks)
    /\ PendingFirst(last.ret)
    /\ \A i, j \in DOMAIN last.ret :
         i < j /\ last.ret[i].completed = last.ret[j].completed
           => last.ret[i].createdAt >= last.ret[j].createdAt

(* A listing in which a pending task stands before a completed task that   *)
(* was created later, and two tasks of one group differ in createdAt.      *)
C2_Witness ==
  /\ last.method = "GET"
  /\ \E i, j \in DOMAIN last.ret :
       /\ i < j
       /\ ~last.ret[i].completed /\ last.ret[j].completed
       /\ last.ret[i].createdAt < last.ret[j].createdAt

(* C3: a create request with an empty title or a title of 101 characters   *)
(* is answered 400 by the server, and one with a title of exactly 100      *)
(* characters succeeds.                                                    *)
C3_TitleBoundary ==
  [][\A t \in BoundaryTitleInputs :
       PostTaskReq(t) =>
         /\ (Len(t.s) = 0 \/ Len(t.s) > 100) => last'.status = 400
         /\ Len(t.s) = 100 => last'.status = 201]_vars

C5_DeleteTwice ==
  [][last'.method = "DELETE" =>
     \A seg \in IdSegments :
       LET id == ParsedId[seg]
       IN ~isNaN(id) /\ InInt4(id) /\ DeleteTaskReq(seg) =>
            /\ RowsById(tasks, id) # {} =>
                 /\ last'.deleted
                 /\ \A list \in getAllTasks(tasks') :
                      \A i \in DOMAIN list : list[i].id # id.val
            /\ (last.method = "DELETE" /\ last.id = id /\ last.deleted) =>
                 /\ ~last'.deleted
                 /\ tasks' = tasks]_vars

(* A delete that returned false for an id that had been handed out. *)
C5_Witness ==
  /\ last.method = "DELETE"
  /\ last.status = 404
  /\ last.id.val \in Range(issued)

(* C6: after a successful create the returned task is the one every        *)
(* listing holds, the listing has exactly one more task than before, and   *)
(* that task has the requested title, completed false, completedAt null,   *)
(* the creation time and an id never handed out before.                    *)
C6_CreateRoundTrip ==
  [][last'.method = "POST" /\ last'.status = 201 =>
     \A t \in TitleInputs :
       PostTaskReq(t) =>
         LET new == last'.ret[1]
         IN /\ new \notin tasks
            /\ tasks' = tasks \cup {new}
            /\ \A list \in getAllTasks(tasks') :
                 /\ Len(list) = Cardinality(tasks) + 1
                 /\ Cardinality({i \in DOMAIN list : list[i] = new}) = 1
                 /\ Cardinality({i \in DOMAIN list : list[i].id = new.id}) = 1
            /\ new.title = t.s
            /\ new.completed = FALSE
            /\ new.completedAt = Null
            /\ new.createdAt = now
            /\ new.id \notin Range(issued)
            /\ new.id \notin Ids(tasks)]_vars

(* A create answered 201 after an earlier task had been deleted. *)
C6_Witness ==
  /\ last.method = "POST"
  /\ last.status = 201
  /\ Cardinality(tasks) < Len(issued)

(* C7: ids are unique among the stored tasks, strictly increasing in the   *)
(* order of creation, and the id of a deleted task is never handed out     *)
(* again.                                                                  *)
C7_IdsIncreasingNeverReused ==
  /\ \A i, j \in DOMAIN issued : i < j => issued[i] < issued[j]
  /\ Ids(tasks) \subseteq Range(issued)
  /\ Cardinality(Ids(tasks)) = Cardinality(tasks)

(* A second task created when the first one had already been deleted. *)
C7_Witness ==
  /\ last.method = "POST"
  /\ last.status = 201
  /\ Len(issued) = 2
  /\ tasks = {last.ret[1]}

(* C8: a created task is listed pending with null completedAt; after a     *)
(* PATCH with completed true it is listed completed with non-null          *)
(* completedAt behind every pending task; after a PATCH with completed     *)
(* false its completedAt is null again and it is listed before every       *)
(* completed task; after its delete no listing holds it, then or later.    *)
ListedPending(list, id) ==
  \E i \in DOMAIN list :
    /\ list[i].id = id
    /\ ~list[i].completed
    /\ list[i].completedAt = Null
    /\ \A j \in DOMAIN list : list[j].completed => i < j

ListedCompleted(list, id) ==
  \E i \in DOMAIN list :
    /\ list[i].id = id
    /\ list[i].completed
    /\ list[i].completedAt # Null
    /\ \A j \in DOMAIN list : ~list[j].completed => j < i

C8_Lifecycle ==
  [][/\ last'.method = "POST" /\ last'.status = 201 =>
          \A t \in TitleInputs :
            PostTaskReq(t) =>
              \A list \in getAllTasks(tasks') : ListedPending(list, last'.ret[1].id)
     /\ last'.method = "PATCH" /\ last'.status = 200 =>
          \A seg \in IdSegments :
            /\ last'.id = ParsedId[seg] /\ PatchTaskReq(seg, JBool(TRUE)) =>
                 \A list \in getAllTasks(tasks') :
                   ListedCompleted(list, ParsedId[seg].val)
            /\ last'.id = ParsedId[seg] /\ PatchTaskReq(seg, JBool(FALSE)) =>
                 \A list \in getAllTasks(tasks') :
                   ListedPending(list, ParsedId[seg].val)
     /\ last'.method = "DELETE" /\ last'.status = 204 =>
          \A seg \in IdSegments :
            DeleteTaskReq(seg) =>
              \A list \in getAllTasks(tasks') :
                \A i \in DOMAIN list : list[i].id # ParsedId[seg].val
     /\ \A id \in Range(issued) : id \notin Ids(tasks) => id \notin Ids(tasks')]_vars

(* A task just marked completed while another task is still pending. *)
C8_Witness ==
  /\ last.method = "PATCH"
  /\ last.status = 200
  /\ last.ret[1].completed
  /\ \E r \in tasks : ~r.completed

(* C9: a PATCH or DELETE whose id segment is not a number is answered 400  *)
(* and does not reach the store, also when the segment starts with digits. *)
C9_NonNumericIdRejected ==
  [][\A seg \in IdSegments :
       ~IsDecimal(seg) =>
         /\ \A c \in CompletedInputs :
              PatchTaskReq(seg, c) => last'.status = 400 /\ tasks' = tasks
         /\ DeleteTaskReq(seg) => last'.status = 400 /\ tasks' = tasks]_vars

C11_ConcurrentSetCompletion ==
  [][/\ \A req \in pending :
          /\ last'.method = "PATCH"
          /\ RowsById(tasks, req.id) # {}
          /\ PatchApplyReq(req)
          =>
            /\ last'.status = 200
            /\ Cardinality(RowsById(tasks', req.id)) = 1
            /\ \A r \in RowsById(tasks', req.id) :
                 /\ r.completed = req.updates.completed.b
                 /\ r.completedAt = req.updates.completedAt
            /\ tasks' \ RowsById(tasks', req.id) = tasks \ RowsById(tasks, req.id)
     /\ \A r \in tasks' : (r.completedAt # Null) <=> r.completed]_vars

(* Two requests race on one task: the one that completes it, prepared at   *)
(* time 1, has been applied at time 2 and the one that reopens it is still *)
(* in flight.                                                              *)
C11_Witness ==
  /\ last.method = "PATCH"
  /\ last.status = 200
  /\ last.ret[1] \in tasks
  /\ last.ret[1].completed
  /\ last.ret[1].completedAt = Some(1)
  /\ now = 2
  /\ \E req \in pending : req.id = last.id /\ req.updates.completed = JBool(FALSE)

(* C12: deleted is terminal: once the task with an id that was handed out  *)
(* is no longer stored, no later step stores a task with that id, a PATCH  *)
(* on the id, also one that was in flight when the task was deleted, is    *)
(* answered 404 with nothing returned, and a DELETE on the id returns      *)
(* false; both leave the task set as it was.                               *)
C12_DeletedIsTerminal ==
  [][/\ \A id \in Range(issued) : id \notin Ids(tasks) => id \notin Ids(tasks')
     /\ last'.method = "PATCH" =>
          \A req \in pending :
            /\ req.id.val \in Range(issued) \ Ids(tasks)
            /\ PatchApplyReq(req)
            => last'.status = 404 /\ last'.ret = Null /\ tasks' = tasks
     /\ last'.method = "DELETE" =>
          \A seg \in RaceSegments :
            /\ ParsedId[seg].val \in Range(issued) \ Ids(tasks)
            /\ DeleteTaskReq(seg)
            => last'.status = 404 /\ ~last'.deleted /\ tasks' = tasks]_vars

(* A PATCH on a deleted task answered 404 at time 2 while another PATCH on *)
(* that task, prepared at time 1, is still in flight.                      *)
C12_Witness ==
  /\ last.method = "PATCH"
  /\ last.status = 404
  /\ last.id.val \in Range(issued) \ Ids(tasks)
  /\ now = 2
  /\ \E req \in pending : req.id = last.id /\ req.updates.completedAt = Some(1)

(* C13: the id, title and createdAt of a task never change after creation: *)
(* whatever the request, a task stored before and after it under one id    *)
(* has the same title and createdAt, a PATCH removes no task, and the      *)
(* columns a PATCH changes are among completed and completedAt.            *)
C13_CreationFieldsFrozen ==
  [][/\ \A r \in tasks : \A r2 \in tasks' :
          r2.id = r.id => r2.title = r.title /\ r2.createdAt = r.createdAt
     /\ last'.method = "PATCH" =>
          /\ Ids(tasks') = Ids(tasks)
          /\ last'.changed \subseteq {"completed", "completedAt"}]_vars

(* A task created at time 1 whose completion a PATCH changed at time 2. *)
C13_Witness ==
  /\ last.method = "PATCH"
  /\ last.status = 200
  /\ last.changed = {"completed", "completedAt"}
  /\ last.ret[1].createdAt = 1
  /\ last.ret[1].completedAt = Some(2)
  /\ last.ret[1] \in tasks

(* C14: every mutating operation touches exactly one record: whenever a    *)
(* request is answered, a successful create has added one task and changed *)
(* no stored task, a PATCH and a DELETE have left every task whose id      *)
(* differs from the id they target as it was and added none, a successful  *)
(* PATCH or DELETE has touched exactly the one task with that id, and a    *)
(* listing has changed nothing.                                            *)
C14_OneRecordTouched ==
  [][last' # last =>
       /\ last'.method = "POST" =>
            /\ tasks \subseteq tasks'
            /\ Cardinality(tasks' \ tasks) = IF last'.status = 201 THEN 1 ELSE 0
       /\ last'.method \in {"PATCH", "DELETE"} =>
            {r \in tasks : r.id # last'.id.val} = {r \in tasks' : r.id # last'.id.val}
       /\ last'.method = "PATCH" /\ last'.status = 200 =>
            /\ Cardinality(RowsById(tasks, last'.id)) = 1
            /\ RowsById(tasks', last'.id) = {last'.ret[1]}
       /\ last'.method = "DELETE" /\ last'.status = 204 =>
            /\ Cardinality(tasks \ tasks') = 1
            /\ tasks' \subseteq tasks
       /\ last'.method = "GET" => tasks' = tasks]_vars

(* A PATCH that changed one task while another task, not completed, is     *)
(* stored.                                                                 *)
C14_Witness ==
  /\ last.method = "PATCH"
  /\ last.status = 200
  /\ last.changed # {}
  /\ \E r \in tasks : r.id # last.id.val /\ ~r.completed /\ r.completedAt = Null

(* C15: validation is performed before the store is touched: a request     *)
(* answered 400 leaves the task set, the id sequence and the ids handed    *)
(* out as they were, and a create whose body insertTaskSchema refuses, or  *)
(* a PATCH or DELETE whose id reads as NaN, is answered 400 also while the *)
(* database cannot be reached.                                             *)
C15_RejectedBeforeStore ==
  [][/\ last'.status = 400 =>
          tasks' = tasks /\ seq' = seq /\ issued' = issued
     /\ last'.method = "POST" =>
          \A t \in TitleInputs :
            ~insertTaskSchema([title |-> t]).ok /\ PostTaskReq(t) => last'.status = 400
     /\ last'.method \in {"PATCH", "DELETE"} =>
          \A seg \in IdSegments :
            isNaN(ParsedId[seg]) =>
              /\ \A c \in CompletedInputs : PatchTaskReq(seg, c) => last'.status = 400
              /\ DeleteTaskReq(seg) => last'.status = 400]_vars

(* A create answered 400 while tasks are stored and the database cannot be *)
(* reached.                                                                *)
C15_Witness ==
  /\ last.method = "POST"
  /\ last.status = 400
  /\ tasks # {}
  /\ ~dbUp

(* C16: when the store throws during one of the four task routes the       *)
(* response has status 500 and the fixed message of that route, and no     *)
(* response carries the message of an error the store threw.               *)
C16_StoreErrorGenericMessage ==
  [][/\ last'.method = "GET" =>
          \A r \in GetTasksResults :
            r.threw /\ GetTasksReq(r) =>
              last'.status = 500 /\ last'.message = "Failed to fetch tasks"
     /\ last'.method = "POST" =>
          \A t \in TitleInputs :
            LET validatedData == insertTaskSchema([title |-> t])
            IN /\ validatedData.ok
               /\ execute(createTask(tasks, validatedData.data, seq + 1, now), Null).threw
               /\ PostTaskReq(t)
               => last'.status = 500 /\ last'.message = "Failed to create task"
     /\ last'.method = "PATCH" =>
          \A seg \in IdSegments, c \in CompletedInputs :
            /\ ~isNaN(ParsedId[seg])
            /\ execute(updateTask(tasks, ParsedId[seg], PatchUpdates(c)), Null).threw
            /\ PatchTaskReq(seg, c)
            => last'.status = 500 /\ last'.message = "Failed to update task"
     /\ last'.method = "DELETE" =>
          \A seg \in IdSegments :
            /\ ~isNaN(ParsedId[seg])
            /\ execute(deleteTask(tasks, ParsedId[seg]), FALSE).threw
            /\ DeleteTaskReq(seg)
            => last'.status = 500 /\ last'.message = "Failed to delete task"
     /\ last'.message \notin StoreErrors]_vars

(* A PATCH answered 500 for a statement the reachable database refused,    *)
(* while tasks are stored.                                                 *)
C16_Witness ==
  /\ last.method = "PATCH"
  /\ last.status = 500
  /\ last.message = "Failed to update task"
  /\ dbUp
  /\ tasks # {}

(* C17: a PATCH with completed true on a task that is already completed    *)
(* sets completedAt to the time of this call, whatever time it held;       *)
(* completed stays true and completedAt stays non-null.                    *)
C17_RestampOnRepeat ==
  [][last'.method = "PATCH" /\ last'.status = 200 =>
       \A seg \in IdSegments :
         LET before == RowsById(tasks, ParsedId[seg])
         IN (\E b \in before : b.completed) /\ PatchTaskReq(seg, JBool(TRUE)) =>
              /\ last'.ret[1].completed
              /\ last'.ret[1].completedAt = Some(now)
              /\ last'.ret[1] \in tasks'
              /\ "completed" \notin last'.changed
              /\ \A b \in before :
                   b.completedAt # Some(now) => "completedAt" \in last'.changed]_vars

(* A completed task whose completedAt alone a PATCH changed, to time 2. *)
C17_Witness ==
  /\ last.method = "PATCH"
  /\ last.status = 200
  /\ last.changed = {"completedAt"}
  /\ last.ret[1].completed
  /\ last.ret[1].completedAt = Some(2)

(* The client has no mutation and no fetch in flight. *)
ClientIdle == fetch = Null /\ mutation = Null

C19_ClientOrderAgrees ==
  [][shown' # shown =>
       LET data == IF cache = Null THEN <<>> ELSE cache[1]
       IN /\ cache # Null => data \in getAllTasks(tasks)
          /\ \A list \in getAllTasks(tasks) : sortedTasks(list) = list
          /\ shown'[1].sortedTasks = data
          /\ shown'[1].pendingTasks \o shown'[1].completedTasks = data
          /\ \A i \in DOMAIN shown'[1].pendingTasks :
               ~shown'[1].pendingTasks[i].completed
          /\ \A i \in DOMAIN shown'[1].completedTasks :
               shown'[1].completedTasks[i].completed]_vars

(* A rendered list of two pending tasks created at different times within  *)
(* one millisecond, the later one first.                                   *)
C19_Witness ==
  /\ shown # Null
  /\ Len(shown[1].pendingTasks) = 2
  /\ shown[1].pendingTasks[1].createdAt > shown[1].pendingTasks[2].createdAt
  /\ getTime(shown[1].pendingTasks[1].createdAt) = getTime(shown[1].pendingTasks[2].createdAt)

(* C20: a PATCH /api/tasks/:id whose body does not match updateTaskSchema   *)
(* (completed missing, or not a boolean: the string "false", 0, null) is   *)
(* answered with a client error and leaves the task set as it was.         *)
C20_PatchBodyValidated ==
  [][last'.method = "PATCH" =>
       \A seg \in IdSegments, c \in CompletedInputs :
         c.type # "boolean" /\ PatchTaskReq(seg, c) =>
           /\ last'.status \in 400..499
           /\ tasks' = tasks]_vars

(* C21: a call storage.updateTask(id, {completed: v}) that passes the      *)
(* completed flag alone on a stored task leaves it with completedAt set    *)
(* when v is true and null when v is false.                                *)
C21_StoreStampsCompletedAt ==
  [][last'.method = "updateTask" /\ last'.ret # Null =>
       \A i \in 1..MaxId, v \in BOOLEAN :
         last'.id = Num(i) /\ StorageUpdateCall(i, [completed |-> JBool(v)]) =>
           /\ last'.ret[1] \in tasks'
           /\ last'.ret[1].completed = v
           /\ (last'.ret[1].completedAt # Null) = v]_vars

(* The position of the toast with the id in the list; 0 when none has it. *)
ToastIndex(list, id) ==
  IF \E i \in DOMAIN list : list[i].id = id
  THEN CHOOSE i \in DOMAIN list : list[i].id = id
  ELSE 0

(* The number of removal timers pending for the id. *)
TimersFor(timeouts, id) == Cardinality({i \in DOMAIN timeouts : timeouts[i] = id})

(* C22: the toast state never holds more than TOAST_LIMIT toasts, and      *)
(* right after an ADD_TOAST its first toast is the one that was added.     *)
C22_ToastLimit ==
  /\ Len(toasts) <= TOAST_LIMIT
  /\ dispatched.type = "ADD_TOAST" => toasts # <<>> /\ toasts[1] = dispatched.toast

(* The second toast was added while the first was displayed, and took its  *)
(* place.                                                                  *)
C22_Witness ==
  /\ dispatched.type = "ADD_TOAST"
  /\ dispatched.toast.id = 2
  /\ toasts = <<dispatched.toast>>

(* C23: DISMISS_TOAST keeps every toast in the state, sets open to false   *)
(* on the toast it names (on every toast when it names none) and changes   *)
(* nothing else of the toasts; afterwards each toast it closed has exactly *)
(* one removal timer, however often it was dismissed, and no id ever has   *)
(* two.                                                                    *)
C23_DismissClosesAndQueuesOnce ==
  [][dispatched'.type = "DISMISS_TOAST" =>
       /\ Len(toasts') = Len(toasts)
       /\ \A i \in DOMAIN toasts :
            IF dispatched'.toastId = Null \/ dispatched'.toastId = Some(toasts[i].id)
            THEN /\ toasts'[i] = [toasts[i] EXCEPT !.open = FALSE]
                 /\ TimersFor(toastTimeouts', toasts[i].id) = 1
            ELSE toasts'[i] = toasts[i]
       /\ \A id \in 1..MaxToasts : TimersFor(toastTimeouts', id) <= 1]_vars

(* A toast dismissed while its removal timer was already pending: it is    *)
(* still in the state, closed, with its one timer.                         *)
C23_Witness ==
  /\ dispatched.type = "DISMISS_TOAST"
  /\ toasts # <<>>
  /\ dispatched.toastId = Some(toasts[1].id)
  /\ ~toasts[1].open
  /\ toasts[1].title = "Updated"
  /\ toastTimeouts = <<toasts[1].id>>

(* C24: a toast that a DISMISS_TOAST closed is eventually out of the toast *)
(* state; and when a removal timer fires, its id leaves toastTimeouts, a   *)
(* REMOVE_TOAST for that id is dispatched, and afterwards no toast has the *)
(* id and no timer is pending for it.                                      *)
C24_DismissedEventuallyRemoved ==
  /\ \A id \in 1..MaxToasts :
       (/\ dispatched.type = "DISMISS_TOAST"
        /\ ToastIndex(toasts, id) # 0
        /\ dispatched.toastId \in {Null, Some(id)})
         ~> (ToastIndex(toasts, id) = 0)
  /\ [][TimerFires =>
          LET id == Head(toastTimeouts)
          IN /\ dispatched' = Action("REMOVE_TOAST", Some(id), NoProps)
             /\ ToastIndex(toasts', id) = 0
             /\ TimersFor(toastTimeouts', id) = 0
             /\ Len(toastTimeouts') = Len(toastTimeouts) - 1]_vars

(* The timer of the one toast created, dismissed earlier, has fired: the   *)
(* toast is gone and no timer is left.                                     *)
C24_Witness ==
  /\ idCount = 1
  /\ dispatched = Action("REMOVE_TOAST", Some(1), NoProps)
  /\ toasts = <<>>
  /\ toastTimeouts = <<>>

(* C25: UPDATE_TOAST keeps the number and the order of the toasts; the     *)
(* toast with the id of the action takes the properties the action gives   *)
(* and keeps its others, every other toast is unchanged, and so are all of *)
(* them when no toast has that id.                                         *)
C25_UpdateMerges ==
  [][dispatched'.type = "UPDATE_TOAST" =>
       /\ Len(toasts') = Len(toasts)
       /\ \A i \in DOMAIN toasts :
            IF toasts[i].id = dispatched'.toast.id
            THEN /\ DOMAIN toasts'[i] = DOMAIN toasts[i]
                 /\ \A k \in DOMAIN toasts[i] :
                      toasts'[i][k] = IF k \in DOMAIN dispatched'.toast
                                      THEN dispatched'.toast[k]
                                      ELSE toasts[i][k]
            ELSE toasts'[i] = toasts[i]
       /\ ToastIndex(toasts, dispatched'.toast.id) = 0 => toasts' = toasts]_vars

(* A dismissed destructive toast whose title alone was updated: it is      *)
(* still closed and destructive.                                           *)
C25_Witness ==
  /\ dispatched.type = "UPDATE_TOAST"
  /\ toasts # <<>>
  /\ dispatched.toast = [id |-> toasts[1].id, title |-> "Updated"]
  /\ toasts[1] = [id |-> toasts[1].id, open |-> FALSE, title |-> "Updated",
                  variant |-> "destructive"]

C27_CreatedPending ==
  [][last'.method = "POST" =>
       \A body \in PostBodyInputs :
         PostBodyReq(body) =>
           IF body.title.type # "string"
           THEN last'.status = 400 /\ tasks' = tasks
           ELSE /\ last'.status = 201
                /\ last'.ret[1] = [id |-> seq + 1, title |-> body.title.s,
                                   completed |-> FALSE, createdAt |-> now,
                                   completedAt |-> Null]
                /\ tasks' = tasks \cup {last'.ret[1]}]_vars

(* The task a body with completed, id and times has just created. *)
C27_Witness ==
  /\ last.method = "POST"
  /\ last.status = 201
  /\ last.ret[1].title = "forged"
  /\ last.ret[1].id = 2
  /\ ~last.ret[1].completed
  /\ last.ret[1].createdAt = 2
  /\ last.ret[1] \in tasks

(* C28: a toggle carries the negation of the completed flag the client     *)
(* holds in its cached list.  When a client's toggle of a task has been    *)
(* answered 200 and a second client holding the same cached list toggles   *)
(* the same task, the request carries the same value, and the task ends    *)
(* with completed equal to the negation of the cached flag: the second     *)
(* request leaves completed as the first set it and writes completedAt     *)
(* alone, the time of the second call or null.                             *)
C28_ToggleSendsTarget ==
  /\ [][mutation = Null /\ mutation' # Null /\ mutation'[1].req.method = "PATCH" =>
          \E t \in Range(cache[1]) :
            /\ mutation'[1].req.seg = Segment(t.id)
            /\ mutation'[1].req.completed = JBool(~t.completed)]_vars
  /\ [][last'.method = "PATCH" /\ mutation' = mutation /\ mutation # Null
          /\ mutation[1].phase = "replied" /\ mutation[1].status = 200
          /\ mutation[1].req.method = "PATCH" /\ cache # Null =>
          \A t \in Range(cache[1]) :
            /\ mutation[1].req.seg = Segment(t.id)
            /\ mutation[1].req.completed = JBool(~t.completed)
            /\ last'.id = Num(t.id)
            /\ PeerToggleReq(t)
            => /\ last'.status = 200
               /\ last'.ret[1] \in tasks'
               /\ last'.ret[1].completed = ~t.completed
               /\ last'.ret[1].completedAt = IF t.completed THEN Null ELSE Some(now)
               /\ last'.changed \subseteq {"completedAt"}]_vars

(* Both clients, holding task 1 as pending, have toggled it: the second    *)
(* request, handled after the first was answered, changed completedAt      *)
(* alone and the task is completed.                                        *)
C28_Witness ==
  /\ mutation # Null
  /\ mutation[1].phase = "replied"
  /\ mutation[1].status = 200
  /\ mutation[1].req.method = "PATCH"
  /\ mutation[1].req.completed = JBool(TRUE)
  /\ cache # Null
  /\ \E i \in DOMAIN cache[1] : cache[1][i].id = 1 /\ ~cache[1][i].completed
  /\ last.method = "PATCH"
  /\ last.status = 200
  /\ last.changed = {"completedAt"}
  /\ \E r \in tasks : r.id = 1 /\ r.completed /\ r.completedAt = Some(2)

(* The mutation settled last failed: the toast it showed is the error one. *)
LastMutationFailed(t) == t # Null /\ t[1].variant = "destructive"

(* C29 as stated: from the moment a mutation fails until a later mutation  *)
(* succeeds, the cached list stays exactly as it was.                      *)
C29_CacheKeptAfterFailure ==
  [][LastMutationFailed(toasted) => cache' = cache]_vars

(* C29: when a mutation fails, the client shows the error toast, sends no  *)
(* request again and starts no fetch; until a later mutation succeeds no   *)
(* fetch is started, so the cached list changes only by a fetch that was   *)
(* already in flight when the mutation failed.                             *)
C29_FailureStartsNoFetch ==
  [][/\ (mutation # Null /\ mutation' = Null /\ ~ResOk(mutation[1].status)) =>
          /\ LastMutationFailed(toasted')
          /\ toasted'[1].title = "Error"
          /\ UNCHANGED <<cache, fetch, queryError, tasks, seq, last>>
     /\ LastMutationFailed(toasted') => (fetch' # Null => fetch # Null)
     /\ LastMutationFailed(toasted) /\ fetch = Null => cache' = cache]_vars

(* A toggle answered 404 has settled: the error toast is shown, nothing is *)
(* in flight, and the cached list still holds the task the server no       *)
(* longer has.                                                             *)
C29_Witness ==
  /\ LastMutationFailed(toasted)
  /\ toasted[1].description = "Failed to update task. Please try again."
  /\ last.method = "PATCH"
  /\ last.status = 404
  /\ mutation = Null
  /\ fetch = Null
  /\ cache # Null
  /\ cache[1] # <<>>
  /\ tasks = {}

(* C30: a REMOVE_TOAST, dispatched by a removal timer or otherwise, whose   *)
(* id no toast of the state has leaves the toasts as they are, open flags  *)
(* included; one with the id of a toast removes that toast and no other;   *)
(* one without an id empties the list.                                     *)
C30_StaleRemoveChangesNothing ==
  [][dispatched'.type = "REMOVE_TOAST" =>
       IF dispatched'.toastId = Null THEN toasts' = <<>>
       ELSE IF ToastIndex(toasts, dispatched'.toastId[1]) = 0 THEN toasts' = toasts
       ELSE /\ ToastIndex(toasts', dispatched'.toastId[1]) = 0
            /\ \A i \in DOMAIN toasts :
                 toasts[i].id # dispatched'.toastId[1] =>
                   \E j \in DOMAIN toasts' : toasts'[j] = toasts[i]]_vars

(* The first toast was evicted by the second; a REMOVE_TOAST for the first *)
(* has run, no timer is pending, and the second is displayed, open.        *)
C30_Witness ==
  /\ dispatched = Action("REMOVE_TOAST", Some(1), NoProps)
  /\ toasts # <<>>
  /\ toasts[1].id = 2
  /\ toasts[1].open
  /\ toastTimeouts = <<>>

====
